---- MODULE Spec2Model ----
(***************************************************************************)
(* Model of the request pipeline of EasyPayPal (src/src/index.js): the      *)
(* cached access token, the per-minute throttle, error classification and   *)
(* makeRequest with its bounded retry.                                      *)
(*                                                                          *)
(* Time is Date.now() in milliseconds.  Each caller is one logical flow of  *)
(* an async method; an action is the code that runs between two awaits.    *)
(* `await this.getAccessToken()` on a cache hit resumes with the token      *)
(* already captured and touches no shared field but requestCounter, so the *)
(* cache-hit continuation is part of the action that starts the attempt.    *)
(***************************************************************************)
EXTENDS Integers, Sequences, FiniteSets, TLC

\* ---------------------------------------------------------------- bounds
Callers == {"c1"}
StartTime == 100000          \* Date.now() at construction
MaxTime == 170000            \* the clock is not advanced past this instant
MaxRequests == 5             \* cap on requestCounter
MaxCeiling == 4              \* largest configured maxRequestsPerMinute
Tokens == {"tokA", "tokB"}   \* access_token values the remote side returns
ExpiresInChoices == {60, 120}  \* expires_in values (seconds)
Payloads == {"d1", "d2"}     \* response bodies
FailStatuses == {400, 401, 403, 404, 422, 429, 500, 502, 503}

\* ------------------------------------------------------ program constants
WindowDuration == 60 * 1000
ExpiryMargin == 60000
RetryCeiling == 3
BackoffBase == 1000
OkStatus == 200

TickSteps == {WindowDuration, WindowDuration + 1}

\* JS null / undefined
NoToken == "null"
NoExpiry == 0
NoStatus == 0
NoDetails == "null"
NoData == "none"
NoRequestId == <<0, 0>>

VARIABLES
  accessToken,          \* this.accessToken
  tokenExpiry,          \* this.tokenExpiry
  requestCounter,       \* this.requestCounter
  rateLimitCount,       \* this.rateLimitCount
  rateLimitWindow,      \* this.rateLimitWindow
  maxRequestsPerMinute, \* this.maxRequestsPerMinute
  now,                  \* Date.now()
  pc,                   \* per caller: position in the async method
  op,                   \* per caller: the method being run
  retryCount,           \* per caller: makeRequest's retryCount argument
  token,                \* per caller: const token of the current attempt
  requestId,            \* per caller: const requestId of the current attempt
  wakeAt,               \* per caller: instant the backoff timer fires
  hist,                 \* per caller: statuses answered to this dispatch
  response,             \* per caller: last settlement of axios(config)
  parsed,               \* per caller: last parsedError
  outcome,              \* per caller: value returned or error thrown
  attempts,             \* per caller: API requests sent by this dispatch
  exchanges,            \* per caller: token exchanges sent by this call
  cachedExpiresIn,      \* expires_in of the exchange that set tokenExpiry
  config,               \* this.config: retryAttempts and timeout
  call,                 \* last call of a synchronous helper: arguments, result
  identity              \* this.clientId, clientSecret, mode, baseURL

clientVars == <<accessToken, tokenExpiry, requestCounter, rateLimitCount,
                rateLimitWindow, maxRequestsPerMinute>>
callerVars == <<pc, op, retryCount, token, requestId, wakeAt, hist, response, parsed,
                outcome, attempts, exchanges>>
auxVars == <<config, call, identity>>
vars == <<clientVars, callerVars, now, cachedExpiresIn, auxVars>>

\* ------------------------------------------------------------ value shapes
NoParsed == [type |-> "none", details |-> NoDetails, status |-> NoStatus]
NoOutcome == [kind |-> "none", type |-> "none", status |-> NoStatus,
              details |-> NoDetails, requestId |-> NoRequestId, data |-> NoData]

NoResponse == [hasResponse |-> FALSE, status |-> NoStatus, data |-> "unset"]
NetworkFailure == [hasResponse |-> FALSE, status |-> NoStatus, data |-> NoData]
Failures == {NetworkFailure} \cup
            [hasResponse : {TRUE}, status : FailStatuses, data : Payloads]

Max(a, b) == IF a >= b THEN a ELSE b

\* ------------------------------------------------------------ getAccessToken
\* variant: the safety margin is subtracted a second time at the cache test
tokenCached_doubleMargin(tok, expiry, t) ==
  tok # NoToken /\ expiry # NoExpiry /\ t < expiry - ExpiryMargin

\* the cache test of getAccessToken at instant t
tokenCached(tok, expiry, t) ==
  tok # NoToken /\ expiry # NoExpiry /\ t < expiry

\* variant: the one-minute margin is left out
computeExpiry_noMargin(t, expires_in) == t + (expires_in * 1000)

\* expiry stored after an exchange answered at instant t
computeExpiry(t, expires_in) == t + (expires_in * 1000) - ExpiryMargin

\* ------------------------------------------------------------ checkRateLimit
\* variant: the ceiling test is strict
checkRateLimit_strictCeiling(count, window, t, ceiling) ==
  LET reset == t - window > WindowDuration
      w2 == IF reset THEN t ELSE window
      c2 == IF reset THEN 0 ELSE count
  IN IF c2 > ceiling
       THEN [ok |-> FALSE, count |-> c2, window |-> w2]
       ELSE [ok |-> TRUE, count |-> c2 + 1, window |-> w2]

\* variant: the window test is not strict
checkRateLimit_earlyReset(count, window, t, ceiling) ==
  LET reset == t - window >= WindowDuration
      w2 == IF reset THEN t ELSE window
      c2 == IF reset THEN 0 ELSE count
  IN IF c2 >= ceiling
       THEN [ok |-> FALSE, count |-> c2, window |-> w2]
       ELSE [ok |-> TRUE, count |-> c2 + 1, window |-> w2]

\* variant: a rejected check counts as well
checkRateLimit_countsRejected(count, window, t, ceiling) ==
  LET reset == t - window > WindowDuration
      w2 == IF reset THEN t ELSE window
      c2 == IF reset THEN 0 ELSE count
  IN IF c2 >= ceiling
       THEN [ok |-> FALSE, count |-> c2 + 1, window |-> w2]
       ELSE [ok |-> TRUE, count |-> c2 + 1, window |-> w2]

checkRateLimit(count, window, t, ceiling) ==
  LET reset == t - window > WindowDuration
      w2 == IF reset THEN t ELSE window
      c2 == IF reset THEN 0 ELSE count
  IN IF c2 >= ceiling
       THEN [ok |-> FALSE, count |-> c2, window |-> w2]
       ELSE [ok |-> TRUE, count |-> c2 + 1, window |-> w2]

\* ---------------------------------------------------------------- parseError
\* the switch of parseError on the status
errorTypeOf(status) ==
  CASE status = 400 -> "BAD_REQUEST"
    [] status = 401 -> "AUTHENTICATION_FAILURE"
    [] status = 403 -> "AUTHORIZATION_FAILURE"
    [] status = 404 -> "NOT_FOUND"
    [] status = 422 -> "VALIDATION_ERROR"
    [] status = 429 -> "RATE_LIMIT_EXCEEDED"
    [] status = 500 -> "INTERNAL_SERVER_ERROR"
    [] OTHER -> "UNKNOWN_ERROR"

\* variant: the 401 case does not reset this.accessToken
parseError_keepToken(error, tok) ==
  IF ~error.hasResponse
    THEN [type |-> "NETWORK_ERROR", details |-> NoDetails, status |-> NoStatus,
          accessToken |-> tok]
    ELSE [type |-> errorTypeOf(error.status), details |-> error.data,
          status |-> error.status, accessToken |-> tok]

\* variant: the 403 case resets this.accessToken as well
parseError_clearOn403(error, tok) ==
  IF ~error.hasResponse
    THEN [type |-> "NETWORK_ERROR", details |-> NoDetails, status |-> NoStatus,
          accessToken |-> tok]
    ELSE [type |-> errorTypeOf(error.status), details |-> error.data,
          status |-> error.status,
          accessToken |-> IF error.status \in {401, 403} THEN NoToken ELSE tok]

\* variant: the 500 case resets this.accessToken as well
parseError_clearOn500(error, tok) ==
  IF ~error.hasResponse
    THEN [type |-> "NETWORK_ERROR", details |-> NoDetails, status |-> NoStatus,
          accessToken |-> tok]
    ELSE [type |-> errorTypeOf(error.status), details |-> error.data,
          status |-> error.status,
          accessToken |-> IF error.status \in {401, 500} THEN NoToken ELSE tok]

\* variant: the case for 422 is missing from the switch
parseError_no422(error, tok) ==
  IF ~error.hasResponse
    THEN [type |-> "NETWORK_ERROR", details |-> NoDetails, status |-> NoStatus,
          accessToken |-> tok]
    ELSE [type |-> IF error.status = 422 THEN "UNKNOWN_ERROR"
                   ELSE errorTypeOf(error.status),
          details |-> error.data, status |-> error.status,
          accessToken |-> IF error.status = 401 THEN NoToken ELSE tok]

\* the classification, and the value this.accessToken has afterwards
parseError(error, tok) ==
  IF ~error.hasResponse
    THEN [type |-> "NETWORK_ERROR", details |-> NoDetails, status |-> NoStatus,
          accessToken |-> tok]
    ELSE [type |-> errorTypeOf(error.status), details |-> error.data,
          status |-> error.status,
          accessToken |-> IF error.status = 401 THEN NoToken ELSE tok]

\* --------------------------------------------------------------- makeRequest
\* variant: one retry fewer
shouldRetry_twice(rc, parsedError) ==
  rc < RetryCeiling - 1 /\
  (parsedError.type = "AUTHENTICATION_FAILURE" \/ parsedError.status = 500)

\* variant: a remote rate-limit answer is retried as well
shouldRetry_on429(rc, parsedError) ==
  rc < RetryCeiling /\
  (parsedError.type = "AUTHENTICATION_FAILURE" \/ parsedError.status = 500
     \/ parsedError.status = 429)

\* variant: every 5xx status is retried
shouldRetry_any5xx(rc, parsedError) ==
  rc < RetryCeiling /\
  (parsedError.type = "AUTHENTICATION_FAILURE" \/ parsedError.status >= 500)

\* variant: the retry counter is not tested
shouldRetry_unbounded(rc, parsedError) ==
  parsedError.type = "AUTHENTICATION_FAILURE" \/ parsedError.status = 500

\* the retry test of the catch block
shouldRetry(rc, parsedError) ==
  rc < RetryCeiling /\
  (parsedError.type = "AUTHENTICATION_FAILURE" \/ parsedError.status = 500)

\* variant: the delay grows by one base interval per retry
backoffDelay_linear(rc) == (rc + 1) * BackoffBase

\* the backoff delay
backoffDelay(rc) == (2 ^ rc) * BackoffBase

RateLimitError == [NoOutcome EXCEPT !.kind = "RateLimitError"]
AuthError == [NoOutcome EXCEPT !.kind = "AuthError"]
\* variant: the error raised loses the payload of the response
enhancedError_noDetails(parsedError, rid) ==
  [kind |-> "ApiError", type |-> parsedError.type, status |-> parsedError.status,
   details |-> NoDetails, requestId |-> rid, data |-> NoData]
enhancedError(parsedError, rid) ==
  [kind |-> "ApiError", type |-> parsedError.type, status |-> parsedError.status,
   details |-> parsedError.details, requestId |-> rid, data |-> NoData]
returned(d) == [NoOutcome EXCEPT !.kind = "return", !.data = d]

\* requestCounter++, build requestId and config, call axios(config)
sendRequest(p, tok, t) ==
  /\ requestCounter' = requestCounter + 1
  /\ requestId' = [requestId EXCEPT ![p] = <<requestCounter + 1, t>>]
  /\ token' = [token EXCEPT ![p] = tok]
  /\ attempts' = [attempts EXCEPT ![p] = @ + 1]
  /\ pc' = [pc EXCEPT ![p] = "requesting"]

\* variant: a retry skips the throttle check
makeRequest_retryUnthrottled(p, rc, t) ==
  LET chk == IF rc > 0
               THEN [ok |-> TRUE, count |-> rateLimitCount,
                     window |-> rateLimitWindow]
               ELSE checkRateLimit(rateLimitCount, rateLimitWindow, t,
                                   maxRequestsPerMinute)
  IN /\ rateLimitCount' = chk.count
     /\ rateLimitWindow' = chk.window
     /\ retryCount' = [retryCount EXCEPT ![p] = rc]
     /\ UNCHANGED <<accessToken, tokenExpiry, maxRequestsPerMinute, wakeAt,
                    hist, response, parsed, cachedExpiresIn>>
     /\ IF ~chk.ok
          THEN /\ pc' = [pc EXCEPT ![p] = "done"]
               /\ outcome' = [outcome EXCEPT ![p] = RateLimitError]
               /\ UNCHANGED <<requestCounter, requestId, token, attempts,
                              exchanges>>
          ELSE IF tokenCached(accessToken, tokenExpiry, t)
            THEN /\ sendRequest(p, accessToken, t)
                 /\ UNCHANGED <<outcome, exchanges>>
            ELSE /\ pc' = [pc EXCEPT ![p] = "exchanging"]
                 /\ exchanges' = [exchanges EXCEPT ![p] = @ + 1]
                 /\ UNCHANGED <<requestCounter, requestId, token, attempts,
                                outcome>>

\* makeRequest(method, endpoint, data, rc) entered at instant t, up to its
\* first pending network call
makeRequest(p, rc, t) ==
  LET chk == checkRateLimit(rateLimitCount, rateLimitWindow, t,
                            maxRequestsPerMinute)
  IN /\ rateLimitCount' = chk.count
     /\ rateLimitWindow' = chk.window
     /\ retryCount' = [retryCount EXCEPT ![p] = rc]
     /\ UNCHANGED <<accessToken, tokenExpiry, maxRequestsPerMinute, wakeAt,
                    hist, response, parsed, cachedExpiresIn>>
     /\ IF ~chk.ok
          THEN /\ pc' = [pc EXCEPT ![p] = "done"]
               /\ outcome' = [outcome EXCEPT ![p] = RateLimitError]
               /\ UNCHANGED <<requestCounter, requestId, token, attempts,
                              exchanges>>
          ELSE IF tokenCached(accessToken, tokenExpiry, t)
            THEN /\ sendRequest(p, accessToken, t)
                 /\ UNCHANGED <<outcome, exchanges>>
            ELSE /\ pc' = [pc EXCEPT ![p] = "exchanging"]
                 /\ exchanges' = [exchanges EXCEPT ![p] = @ + 1]
                 /\ UNCHANGED <<requestCounter, requestId, token, attempts,
                                outcome>>

\* ------------------------------------------------------------------- actions
\* config.timeout and config.retryAttempts when no option or variable sets them
DefaultTimeout == 30000
DefaultRetryAttempts == 3
DefaultConfig == [timeout |-> DefaultTimeout, retryAttempts |-> DefaultRetryAttempts]
NoCall == [fn |-> "none"]
\* the credentials and the endpoint root of a sandbox client
ClientIdentity ==
  [clientId |-> "id", clientSecret |-> "secret", mode |-> "sandbox",
   baseURL |-> "https://api-m.sandbox.paypal.com"]

Init ==
  /\ accessToken = NoToken
  /\ tokenExpiry = NoExpiry
  /\ requestCounter = 0
  /\ rateLimitCount = 0
  /\ rateLimitWindow = StartTime
  /\ maxRequestsPerMinute \in 1..MaxCeiling
  /\ now = StartTime
  /\ pc = [p \in Callers |-> "idle"]
  /\ op = [p \in Callers |-> "none"]
  /\ retryCount = [p \in Callers |-> 0]
  /\ token = [p \in Callers |-> NoToken]
  /\ requestId = [p \in Callers |-> NoRequestId]
  /\ wakeAt = [p \in Callers |-> 0]
  /\ hist = [p \in Callers |-> <<>>]
  /\ response = [p \in Callers |-> NoResponse]
  /\ parsed = [p \in Callers |-> NoParsed]
  /\ outcome = [p \in Callers |-> NoOutcome]
  /\ attempts = [p \in Callers |-> 0]
  /\ exchanges = [p \in Callers |-> 0]
  /\ cachedExpiresIn = 0
  /\ config = DefaultConfig
  /\ call = NoCall
  /\ identity = ClientIdentity

\* a caller invokes makeRequest(method, endpoint, data)
Dispatch(p) ==
  /\ pc[p] = "idle"
  /\ requestCounter < MaxRequests
  /\ op' = [op EXCEPT ![p] = "makeRequest"]
  /\ makeRequest(p, 0, now)
  /\ UNCHANGED <<now, auxVars>>

\* a caller invokes getAccessToken() directly (as getApiStatus does)
AcquireToken(p) ==
  /\ pc[p] = "idle"
  /\ op' = [op EXCEPT ![p] = "getAccessToken"]
  /\ IF tokenCached(accessToken, tokenExpiry, now)
       THEN /\ pc' = [pc EXCEPT ![p] = "done"]
            /\ outcome' = [outcome EXCEPT ![p] = returned(accessToken)]
            /\ token' = [token EXCEPT ![p] = accessToken]
            /\ UNCHANGED exchanges
       ELSE /\ pc' = [pc EXCEPT ![p] = "exchanging"]
            /\ exchanges' = [exchanges EXCEPT ![p] = @ + 1]
            /\ UNCHANGED <<outcome, token>>
  /\ UNCHANGED <<clientVars, retryCount, requestId, wakeAt, hist, response,
                 parsed, attempts, now, cachedExpiresIn, auxVars>>

\* variant: the answered exchange stores the token and keeps the old expiry
ExchangeOk_keepsExpiry(p, tok, expires_in) ==
  /\ pc[p] = "exchanging"
  /\ accessToken' = tok
  /\ tokenExpiry' = (IF tokenExpiry = NoExpiry
                      THEN computeExpiry(now, expires_in) ELSE tokenExpiry)
  /\ cachedExpiresIn' = expires_in
  /\ IF op[p] = "getAccessToken"
       THEN /\ pc' = [pc EXCEPT ![p] = "done"]
            /\ outcome' = [outcome EXCEPT ![p] = returned(tok)]
            /\ token' = [token EXCEPT ![p] = tok]
            /\ UNCHANGED <<requestCounter, requestId, attempts>>
       ELSE /\ sendRequest(p, tok, now)
            /\ UNCHANGED outcome
  /\ UNCHANGED <<rateLimitCount, rateLimitWindow, maxRequestsPerMinute, now,
                 op, retryCount, wakeAt, hist, response, parsed, exchanges,
                 auxVars>>

\* the token exchange answers with a token
ExchangeOk(p, tok, expires_in) ==
  /\ pc[p] = "exchanging"
  /\ accessToken' = tok
  /\ tokenExpiry' = computeExpiry(now, expires_in)
  /\ cachedExpiresIn' = expires_in
  /\ IF op[p] = "getAccessToken"
       THEN /\ pc' = [pc EXCEPT ![p] = "done"]
            /\ outcome' = [outcome EXCEPT ![p] = returned(tok)]
            /\ token' = [token EXCEPT ![p] = tok]
            /\ UNCHANGED <<requestCounter, requestId, attempts>>
       ELSE /\ sendRequest(p, tok, now)
            /\ UNCHANGED outcome
  /\ UNCHANGED <<rateLimitCount, rateLimitWindow, maxRequestsPerMinute, now,
                 op, retryCount, wakeAt, hist, response, parsed, exchanges,
                 auxVars>>

\* variant: a failed exchange drops the cached token
ExchangeFail_clearsToken(p) ==
  /\ pc[p] = "exchanging"
  /\ pc' = [pc EXCEPT ![p] = "done"]
  /\ outcome' = [outcome EXCEPT ![p] = AuthError]
  /\ accessToken' = NoToken
  /\ tokenExpiry' = NoExpiry
  /\ UNCHANGED <<requestCounter, rateLimitCount, rateLimitWindow,
                 maxRequestsPerMinute, now, op, retryCount, token, requestId,
                 wakeAt, hist, response, parsed, attempts, exchanges,
                 cachedExpiresIn, auxVars>>

\* variant: a failed exchange wipes the client secret
ExchangeFail_wipesSecret(p) ==
  /\ pc[p] = "exchanging"
  /\ pc' = [pc EXCEPT ![p] = "done"]
  /\ outcome' = [outcome EXCEPT ![p] = AuthError]
  /\ identity' = [identity EXCEPT !.clientSecret = ""]
  /\ UNCHANGED <<clientVars, now, op, retryCount, token, requestId, wakeAt,
                 hist, response, parsed, attempts, exchanges, cachedExpiresIn,
                 config, call>>

\* variant: a failed exchange gives the throttle unit back
ExchangeFail_refundsThrottle(p) ==
  /\ pc[p] = "exchanging"
  /\ pc' = [pc EXCEPT ![p] = "done"]
  /\ outcome' = [outcome EXCEPT ![p] = AuthError]
  /\ rateLimitCount' = rateLimitCount - 1
  /\ UNCHANGED <<accessToken, tokenExpiry, requestCounter, rateLimitWindow,
                 maxRequestsPerMinute, now, op, retryCount, token, requestId,
                 wakeAt, hist, response, parsed, attempts, exchanges,
                 cachedExpiresIn, auxVars>>

\* the token exchange is rejected or the network call fails
ExchangeFail(p) ==
  /\ pc[p] = "exchanging"
  /\ pc' = [pc EXCEPT ![p] = "done"]
  /\ outcome' = [outcome EXCEPT ![p] = AuthError]
  /\ UNCHANGED <<clientVars, now, op, retryCount, token, requestId, wakeAt,
                 hist, response, parsed, attempts, exchanges, cachedExpiresIn,
                 auxVars>>

\* axios(config) resolves
ResponseOk(p, d) ==
  /\ pc[p] = "requesting"
  /\ hist' = [hist EXCEPT ![p] = Append(@, OkStatus)]
  /\ response' = [response EXCEPT ![p] =
                    [hasResponse |-> TRUE, status |-> OkStatus, data |-> d]]
  /\ pc' = [pc EXCEPT ![p] = "done"]
  /\ outcome' = [outcome EXCEPT ![p] = returned(d)]
  /\ UNCHANGED <<clientVars, now, op, retryCount, token, requestId, wakeAt,
                 parsed, attempts, exchanges, cachedExpiresIn, auxVars>>

\* axios(config) rejects: the catch block of makeRequest up to its await
ResponseFail(p, error) ==
  /\ pc[p] = "requesting"
  /\ LET parsedError == parseError(error, accessToken)
     IN /\ accessToken' = parsedError.accessToken
        /\ parsed' = [parsed EXCEPT ![p] =
                        [type |-> parsedError.type,
                         details |-> parsedError.details,
                         status |-> parsedError.status]]
        /\ hist' = [hist EXCEPT ![p] = Append(@, error.status)]
        /\ response' = [response EXCEPT ![p] = error]
        /\ IF shouldRetry(retryCount[p], parsedError)
             THEN /\ pc' = [pc EXCEPT ![p] = "backoff"]
                  /\ wakeAt' = [wakeAt EXCEPT ![p] = now + backoffDelay(retryCount[p])]
                  /\ UNCHANGED outcome
             ELSE /\ pc' = [pc EXCEPT ![p] = "done"]
                  /\ outcome' = [outcome EXCEPT ![p] =
                                   enhancedError(parsedError, requestId[p])]
                  /\ UNCHANGED wakeAt
  /\ UNCHANGED <<tokenExpiry, requestCounter, rateLimitCount, rateLimitWindow,
                 maxRequestsPerMinute, now, op, retryCount, token, requestId,
                 attempts, exchanges, cachedExpiresIn, auxVars>>

\* the backoff timer fires: return this.makeRequest(..., retryCount + 1)
Retry(p) ==
  /\ pc[p] = "backoff"
  /\ Max(now, wakeAt[p]) <= MaxTime
  /\ now' = Max(now, wakeAt[p])
  /\ makeRequest(p, retryCount[p] + 1, now')
  /\ UNCHANGED <<op, auxVars>>

\* the caller has consumed the result; its next call starts afresh
Finish(p) ==
  /\ pc[p] = (IF op[p] = "verifyWebhook" THEN "settled" ELSE "done")
  /\ pc' = [pc EXCEPT ![p] = "idle"]
  /\ op' = [op EXCEPT ![p] = "none"]
  /\ retryCount' = [retryCount EXCEPT ![p] = 0]
  /\ token' = [token EXCEPT ![p] = NoToken]
  /\ requestId' = [requestId EXCEPT ![p] = NoRequestId]
  /\ wakeAt' = [wakeAt EXCEPT ![p] = 0]
  /\ hist' = [hist EXCEPT ![p] = <<>>]
  /\ response' = [response EXCEPT ![p] = NoResponse]
  /\ parsed' = [parsed EXCEPT ![p] = NoParsed]
  /\ outcome' = [outcome EXCEPT ![p] = NoOutcome]
  /\ attempts' = [attempts EXCEPT ![p] = 0]
  /\ exchanges' = [exchanges EXCEPT ![p] = 0]
  /\ UNCHANGED <<clientVars, now, cachedExpiresIn, auxVars>>

\* wall-clock time passes
Tick(d) ==
  /\ now + d <= MaxTime
  /\ now' = now + d
  /\ UNCHANGED <<clientVars, callerVars, cachedExpiresIn, auxVars>>

Next ==
  \/ \E p \in Callers : Dispatch(p)
  \/ \E p \in Callers : AcquireToken(p)
  \/ \E p \in Callers, tok \in Tokens, e \in ExpiresInChoices : ExchangeOk(p, tok, e)
  \/ \E p \in Callers : ExchangeFail(p)
  \/ \E p \in Callers, d \in Payloads : ResponseOk(p, d)
  \/ \E p \in Callers, error \in Failures : ResponseFail(p, error)
  \/ \E p \in Callers : Retry(p)
  \/ \E p \in Callers : Finish(p)
  \/ \E d \in TickSteps : Tick(d)

Spec == Init /\ [][Next]_vars

\* ---------------------------------------------- configured timeout and retries
\* options.timeout and options.retryAttempts given to the constructor
ConfigChoices == {DefaultConfig, [timeout |-> 45000, retryAttempts |-> 1]}

\* the timeout field of the axios config built by makeRequest
RequestTimeout == 30000
requestTimeout(cfg) == RequestTimeout

\* a client constructed with a timeout and a retry ceiling of the caller's
InitConfig ==
  /\ accessToken = NoToken
  /\ tokenExpiry = NoExpiry
  /\ requestCounter = 0
  /\ rateLimitCount = 0
  /\ rateLimitWindow = StartTime
  /\ maxRequestsPerMinute = MaxCeiling
  /\ now = StartTime
  /\ pc = [p \in Callers |-> "idle"]
  /\ op = [p \in Callers |-> "none"]
  /\ retryCount = [p \in Callers |-> 0]
  /\ token = [p \in Callers |-> NoToken]
  /\ requestId = [p \in Callers |-> NoRequestId]
  /\ wakeAt = [p \in Callers |-> 0]
  /\ hist = [p \in Callers |-> <<>>]
  /\ response = [p \in Callers |-> NoResponse]
  /\ parsed = [p \in Callers |-> NoParsed]
  /\ outcome = [p \in Callers |-> NoOutcome]
  /\ attempts = [p \in Callers |-> 0]
  /\ exchanges = [p \in Callers |-> 0]
  /\ cachedExpiresIn = 0
  /\ config \in ConfigChoices
  /\ call = NoCall
  /\ identity = ClientIdentity

SpecConfig == InitConfig /\ [][Next]_vars

\* ------------------------------------------------- progress of a dispatch
\* axios applies no timeout unless the config of the call names one
NoTimeout == 0

\* the timeout of the token exchange: its axios.post config has headers only
exchangeTimeout == NoTimeout

\* the pending API request settles: a response, an error or the timeout
RequestSettles(p) ==
  \/ \E d \in Payloads : ResponseOk(p, d)
  \/ \E error \in Failures : ResponseFail(p, error)

\* the pending token exchange settles
ExchangeSettles(p) ==
  \/ \E tok \in Tokens, e \in ExpiresInChoices : ExchangeOk(p, tok, e)
  \/ ExchangeFail(p)

InitLive == Init /\ maxRequestsPerMinute = MaxCeiling

\* Time passes only in the backoff waits here.
NextLive ==
  \/ \E p \in Callers : Dispatch(p)
  \/ \E p \in Callers : ExchangeSettles(p)
  \/ \E p \in Callers : RequestSettles(p)
  \/ \E p \in Callers : Retry(p)
  \/ \E p \in Callers : Finish(p)

\* What the code ensures: a backoff timer fires, and a network call that
\* was given a timeout settles.
Fairness ==
  \A p \in Callers :
    /\ WF_vars(Retry(p))
    /\ WF_vars(requestTimeout(config) # NoTimeout /\ RequestSettles(p))
    /\ WF_vars(exchangeTimeout # NoTimeout /\ ExchangeSettles(p))

SpecLive == InitLive /\ [][NextLive]_vars /\ Fairness

\* The same client with a remote side that answers every token exchange.
SpecAnswered ==
  InitLive /\ [][NextLive]_vars /\ Fairness
    /\ \A p \in Callers : WF_vars(ExchangeSettles(p))

\* ------------------------------------------- two callers sharing one client
ConcurrentCallers == {"c1", "c2"}

\* answers of the remote side in the two-caller runs
ConcurrentExpiresIn == {120}

ConcurrentFailures ==
  [hasResponse : {TRUE}, status : {401, 404}, data : {"d1"}]

ConcurrentCeilings == {2, 3}

InitConcurrent ==
  /\ accessToken = NoToken
  /\ tokenExpiry = NoExpiry
  /\ requestCounter = 0
  /\ rateLimitCount = 0
  /\ rateLimitWindow = StartTime
  /\ maxRequestsPerMinute \in ConcurrentCeilings
  /\ now = StartTime
  /\ pc = [p \in ConcurrentCallers |-> "idle"]
  /\ op = [p \in ConcurrentCallers |-> "none"]
  /\ retryCount = [p \in ConcurrentCallers |-> 0]
  /\ token = [p \in ConcurrentCallers |-> NoToken]
  /\ requestId = [p \in ConcurrentCallers |-> NoRequestId]
  /\ wakeAt = [p \in ConcurrentCallers |-> 0]
  /\ hist = [p \in ConcurrentCallers |-> <<>>]
  /\ response = [p \in ConcurrentCallers |-> NoResponse]
  /\ parsed = [p \in ConcurrentCallers |-> NoParsed]
  /\ outcome = [p \in ConcurrentCallers |-> NoOutcome]
  /\ attempts = [p \in ConcurrentCallers |-> 0]
  /\ exchanges = [p \in ConcurrentCallers |-> 0]
  /\ cachedExpiresIn = 0
  /\ config = DefaultConfig
  /\ call = NoCall
  /\ identity = ClientIdentity

\* Each caller runs one dispatch; the steps of the two interleave at the awaits.
NextConcurrent ==
  \/ \E p \in ConcurrentCallers : Dispatch(p)
  \/ \E p \in ConcurrentCallers, tok \in Tokens, e \in ConcurrentExpiresIn :
       ExchangeOk(p, tok, e)
  \/ \E p \in ConcurrentCallers : ExchangeFail(p)
  \/ \E p \in ConcurrentCallers : ResponseOk(p, "d1")
  \/ \E p \in ConcurrentCallers, error \in ConcurrentFailures :
       ResponseFail(p, error)
  \/ \E p \in ConcurrentCallers : Retry(p)
  \/ Tick(WindowDuration + 1)

SpecConcurrent == InitConcurrent /\ [][NextConcurrent]_vars

\* ------------------------------------------------------------- verifyWebhook
\* result.verification_status of the verification endpoint
VerificationStatuses == {"SUCCESS", "FAILURE"}

\* variant: an error of the verification call is rethrown
verifyWebhookResult_rethrow(out) ==
  IF out.kind = "return"
    THEN returned(IF out.data = "SUCCESS" THEN "true" ELSE "false")
    ELSE out

\* the try/catch of verifyWebhook around the settled makeRequest
verifyWebhookResult(out) ==
  IF out.kind = "return"
    THEN returned(IF out.data = "SUCCESS" THEN "true" ELSE "false")
    ELSE returned("false")

\* a caller invokes verifyWebhook(headers, body, webhookId)
VerifyWebhook(p) ==
  /\ pc[p] = "idle"
  /\ requestCounter < MaxRequests
  /\ op' = [op EXCEPT ![p] = "verifyWebhook"]
  /\ makeRequest(p, 0, now)
  /\ UNCHANGED <<now, auxVars>>

\* the awaited makeRequest has settled: verifyWebhook returns
WebhookSettle(p) ==
  /\ pc[p] = "done"
  /\ op[p] = "verifyWebhook"
  /\ pc' = [pc EXCEPT ![p] = "settled"]
  /\ outcome' = [outcome EXCEPT ![p] = verifyWebhookResult(outcome[p])]
  /\ UNCHANGED <<clientVars, now, op, retryCount, token, requestId, wakeAt,
                 hist, response, parsed, attempts, exchanges, cachedExpiresIn,
                 auxVars>>

NextWebhook ==
  \/ \E p \in Callers : VerifyWebhook(p)
  \/ \E p \in Callers : WebhookSettle(p)
  \/ \E p \in Callers, tok \in Tokens, e \in ExpiresInChoices : ExchangeOk(p, tok, e)
  \/ \E p \in Callers : ExchangeFail(p)
  \/ \E p \in Callers, d \in VerificationStatuses : ResponseOk(p, d)
  \/ \E p \in Callers, error \in Failures : ResponseFail(p, error)
  \/ \E p \in Callers : Retry(p)
  \/ \E p \in Callers : Finish(p)
  \/ \E d \in TickSteps : Tick(d)

SpecWebhook == Init /\ [][NextWebhook]_vars

\* ===================================================================
\* Properties
\* ===================================================================
Last(h) == h[Len(h)]

\* caller p enters getAccessToken or makeRequest in this step
Starts(p) ==
  \/ pc[p] = "idle" /\ pc'[p] # "idle"
  \/ pc[p] = "backoff" /\ pc'[p] # "backoff"
\* caller p runs the throttle check in this step
ThrottleChecked(p) == Starts(p) /\ op'[p] = "makeRequest"
\* the throttle check of this step did not throw
Admitted(p) == outcome'[p].kind # "RateLimitError"
\* the rejection of axios(config) is classified in this step
Classifies(p) ==
  pc[p] = "requesting" /\ Len(hist'[p]) = Len(hist[p]) + 1
    /\ Last(hist'[p]) # OkStatus
\* the token exchange of caller p is answered with a token in this step
Exchanged(p) ==
  pc[p] = "exchanging" /\ pc'[p] # "exchanging"
    /\ outcome'[p].kind # "AuthError"

\* the classification table as the specification states it
ExpectedKind(r) ==
  IF ~r.hasResponse THEN "NETWORK_ERROR"
  ELSE IF r.status = 400 THEN "BAD_REQUEST"
  ELSE IF r.status = 401 THEN "AUTHENTICATION_FAILURE"
  ELSE IF r.status = 403 THEN "AUTHORIZATION_FAILURE"
  ELSE IF r.status = 404 THEN "NOT_FOUND"
  ELSE IF r.status = 422 THEN "VALIDATION_ERROR"
  ELSE IF r.status = 429 THEN "RATE_LIMIT_EXCEEDED"
  ELSE IF r.status = 500 THEN "INTERNAL_SERVER_ERROR"
  ELSE "UNKNOWN_ERROR"

\* C1: a dispatch answered 500 three times in a row is not ended by the third
\* 500 (it goes on to a fourth attempt); answered 500, 500, 500 and then a
\* success it has made 4 API attempts, 3 of them retries, and returns the
\* success payload of the fourth.
C1_RetryOn500 ==
  \A p \in Callers :
    /\ hist[p] = <<500, 500, 500>> =>
         /\ attempts[p] \in {3, 4}
         /\ outcome[p].kind \in {"none", "RateLimitError", "AuthError"}
         /\ pc[p] = "requesting" => attempts[p] = 4 /\ retryCount[p] = 3
    /\ hist[p] = <<500, 500, 500, OkStatus>> =>
         /\ pc[p] = "done"
         /\ attempts[p] = 4
         /\ retryCount[p] = 3
         /\ outcome[p].kind = "return"
         /\ outcome[p].data = response[p].data
         /\ outcome[p].data \in Payloads

C1_Witness ==
  \E p \in Callers :
    hist[p] = <<500, 500, 500, OkStatus>> /\ outcome[p].kind = "return"

\* C2: a failure that is neither a 401 nor a 500 ends the dispatch at once:
\* no further attempt follows it (one attempt in all when it answers the
\* first request) and the error raised carries the classified kind, the
\* status, the payload of that response and the correlation id of that
\* attempt.
C2_NonTransientNotRetried ==
  \A p \in Callers :
    (hist[p] # <<>> /\ Last(hist[p]) \notin {401, 500, OkStatus}) =>
      /\ pc[p] = "done"
      /\ attempts[p] = Len(hist[p])
      /\ retryCount[p] = Len(hist[p]) - 1
      /\ outcome[p].kind = "ApiError"
      /\ outcome[p].type = ExpectedKind(response[p])
      /\ outcome[p].status = response[p].status
      /\ outcome[p].details =
           (IF response[p].hasResponse THEN response[p].data ELSE NoDetails)
      /\ outcome[p].requestId = requestId[p]
      /\ requestId[p][1] \in 1..requestCounter

C2_Witness ==
  \E p \in Callers :
    /\ hist[p] = <<404>>
    /\ pc[p] = "done"
    /\ outcome[p].type = "NOT_FOUND"
    /\ attempts[p] = 1

\* C3 as stated: a dispatch raises a 5xx failure only when its retry counter
\* has reached 3.
C3_Original ==
  \A p \in Callers :
    (pc[p] = "done" /\ outcome[p].kind = "ApiError"
       /\ outcome[p].status \in 500..599) => retryCount[p] = 3

\* C3 (amended): a failure with status exactly 500 is retried while the
\* retry counter is below 3 - the dispatch waits and re-issues the request
\* with the counter incremented - and a failure with any other 5xx status is
\* raised at once as UNKNOWN_ERROR.
C3_Only500Retried ==
  \A p \in Callers :
    /\ (pc[p] = "done" /\ outcome[p].kind = "ApiError"
          /\ outcome[p].status = 500) => retryCount[p] = 3
    /\ (hist[p] # <<>> /\ Last(hist[p]) = 500 /\ Len(hist[p]) <= 3) =>
         \/ pc[p] = "backoff" /\ retryCount[p] = Len(hist[p]) - 1
              /\ wakeAt[p] >= requestId[p][2] + 1000
         \/ pc[p] \in {"exchanging", "requesting"}
              /\ retryCount[p] = Len(hist[p])
         \/ pc[p] = "done" /\ retryCount[p] = Len(hist[p])
              /\ outcome[p].kind \in {"RateLimitError", "AuthError"}
    /\ (hist[p] # <<>> /\ Last(hist[p]) \in 501..599) =>
         /\ pc[p] = "done"
         /\ outcome[p].kind = "ApiError"
         /\ outcome[p].type = "UNKNOWN_ERROR"
         /\ attempts[p] = Len(hist[p])

C3_Witness ==
  \E p \in Callers :
    hist[p] = <<500, 502>> /\ pc[p] = "done" /\ attempts[p] = 2
      /\ outcome[p].status = 502

\* C4 as stated: while a dispatch waits for its retry the cached token is
\* invalidated.
C4_Original ==
  \A p \in Callers : pc[p] = "backoff" => accessToken = NoToken

\* C4 (amended): the cached token is invalidated before a retry only after
\* an authentication failure.  Deciding to retry after a 401 clears the
\* cached token before the backoff wait, and the retried attempt of a client
\* used by one caller at a time performs a new token exchange; deciding to
\* retry after a 500 leaves the cached token and its expiry as they are, and
\* the retried attempt reuses the cached token when it is still unexpired.
C4_InvalidationOn401Only ==
  [][\A p \in Callers :
       /\ (Classifies(p) /\ pc'[p] = "backoff") =>
            /\ response'[p].status = 401 =>
                 accessToken' = NoToken
            /\ response'[p].status = 500 =>
                 accessToken' = accessToken /\ tokenExpiry' = tokenExpiry
       /\ (pc[p] = "backoff" /\ pc'[p] # "backoff" /\ Admitted(p)) =>
            /\ response[p].status = 401 =>
                 pc'[p] = "exchanging" /\ exchanges'[p] = exchanges[p] + 1
            /\ (response[p].status = 500 /\ accessToken # NoToken
                  /\ now' < tokenExpiry) =>
                 /\ pc'[p] = "requesting"
                 /\ token'[p] = accessToken
                 /\ exchanges'[p] = exchanges[p]
                 /\ accessToken' = accessToken
    ]_vars

C4_Witness ==
  \E p \in Callers :
    /\ pc[p] = "requesting"
    /\ hist[p] = <<500>>
    /\ exchanges[p] = 1
    /\ token[p] = accessToken

\* C5: an acquisition (a direct getAccessToken call or the one inside an
\* attempt of a dispatch) made while a token is cached and the current time
\* is strictly before the stored expiry sends no token exchange, uses the
\* cached token and leaves the cache as it is.
C5_TokenReuse ==
  [][\A p \in Callers :
       (Starts(p) /\ Admitted(p) /\ accessToken # NoToken /\ now' < tokenExpiry) =>
         /\ pc'[p] # "exchanging"
         /\ exchanges'[p] = exchanges[p]
         /\ token'[p] = accessToken
         /\ accessToken' = accessToken
         /\ tokenExpiry' = tokenExpiry
    ]_vars

C5_Witness ==
  \E p \in Callers :
    /\ pc[p] = "requesting"
    /\ exchanges[p] = 0
    /\ token[p] = accessToken
    /\ token[p] \in Tokens
    /\ now < tokenExpiry

\* C6: an acquisition made while no token is cached, or at or after the
\* stored expiry, sends exactly one exchange; when it is answered the
\* returned token is stored with expiry = time of the answer + expires_in
\* - 60 s and is the token the caller gets; a token whose expires_in is 60 s
\* or less is never reusable.
C6_TokenRenewal ==
  /\ [][\A p \in Callers :
          /\ (Starts(p) /\ Admitted(p)
                /\ (accessToken = NoToken \/ now' >= tokenExpiry)) =>
               /\ pc'[p] = "exchanging"
               /\ exchanges'[p] = exchanges[p] + 1
          /\ Exchanged(p) =>
               /\ accessToken' \in Tokens
               /\ tokenExpiry' = now + cachedExpiresIn' * 1000 - 60000
               /\ token'[p] = accessToken'
               /\ exchanges'[p] = exchanges[p]
               /\ op[p] = "getAccessToken" => outcome'[p].data = accessToken'
       ]_vars
  /\ [](cachedExpiresIn <= 60 => ~(accessToken # NoToken /\ now < tokenExpiry))

C6_Witness ==
  \E p \in Callers :
    /\ pc[p] = "requesting"
    /\ exchanges[p] = 1
    /\ token[p] = accessToken
    /\ cachedExpiresIn = 60
    /\ tokenExpiry = now

\* C7: within one window the throttle check admits a call exactly when the
\* counter is below the ceiling, counting it; so the counter never passes
\* the ceiling, and a call that finds the counter at the ceiling fails with
\* the local rate-limit error without a token exchange or an API request.
C7_ThrottleCeiling ==
  /\ [](rateLimitCount \in 0..maxRequestsPerMinute)
  /\ [][\A p \in Callers :
          (ThrottleChecked(p) /\ now' - rateLimitWindow <= 60000) =>
            /\ Admitted(p) <=> rateLimitCount < maxRequestsPerMinute
            /\ Admitted(p) => rateLimitCount' = rateLimitCount + 1
            /\ ~Admitted(p) =>
                 /\ pc'[p] = "done"
                 /\ outcome'[p].kind = "RateLimitError"
                 /\ rateLimitCount' = rateLimitCount
                 /\ requestCounter' = requestCounter
                 /\ exchanges'[p] = exchanges[p]
                 /\ attempts'[p] = attempts[p]
                 /\ accessToken' = accessToken
       ]_vars

C7_Witness ==
  \E p \in Callers :
    /\ pc[p] = "done"
    /\ outcome[p].kind = "RateLimitError"
    /\ retryCount[p] = 0
    /\ attempts[p] = 0
    /\ exchanges[p] = 0
    /\ rateLimitCount = maxRequestsPerMinute
    /\ maxRequestsPerMinute > 1
    /\ now - rateLimitWindow <= 60000

\* C8: a throttle check run when the window is older than 60 s restarts the
\* window at the current time, admits the call and leaves the counter at 1;
\* a check run when the window is 60 s old or younger keeps the window
\* start and does not lower the counter.
C8_WindowReset ==
  [][\A p \in Callers :
       ThrottleChecked(p) =>
         /\ now' - rateLimitWindow > 60000 =>
              /\ rateLimitWindow' = now'
              /\ rateLimitCount' = 1
              /\ Admitted(p)
         /\ now' - rateLimitWindow <= 60000 =>
              /\ rateLimitWindow' = rateLimitWindow
              /\ rateLimitCount' >= rateLimitCount
    ]_vars

C8_Witness ==
  \E p \in Callers :
    /\ pc[p] \in {"exchanging", "requesting"}
    /\ rateLimitWindow = now
    /\ rateLimitWindow > StartTime + 60000
    /\ rateLimitCount = 1
    /\ requestCounter > 1

\* C9: every classified failure has the kind the table gives for it; with no
\* response the details are null, and with a response the result carries
\* its status and its payload.
C9_Classification ==
  \A p \in Callers :
    (hist[p] # <<>> /\ Last(hist[p]) # OkStatus) =>
      /\ parsed[p].type = ExpectedKind(response[p])
      /\ ~response[p].hasResponse =>
           parsed[p].details = NoDetails /\ parsed[p].status = NoStatus
      /\ response[p].hasResponse =>
           /\ parsed[p].status = response[p].status
           /\ parsed[p].details = response[p].data

C9_Witness ==
  \E p \in Callers :
    /\ response[p].hasResponse
    /\ response[p].status = 422
    /\ parsed[p].type = "VALIDATION_ERROR"
    /\ parsed[p].details = "d2"

\* C10: classifying a 401 clears the cached token, and the next acquisition
\* sends an exchange although the stored expiry has not passed; classifying
\* any other failure changes neither the cached token, its expiry, the rate
\* counter nor the rate window.
C10_ClearOn401Only ==
  [][\A p \in Callers :
       /\ Classifies(p) =>
            /\ response'[p].status = 401 => accessToken' = NoToken
            /\ response'[p].status # 401 =>
                 /\ accessToken' = accessToken
                 /\ tokenExpiry' = tokenExpiry
                 /\ rateLimitCount' = rateLimitCount
                 /\ rateLimitWindow' = rateLimitWindow
       /\ (Starts(p) /\ Admitted(p) /\ accessToken = NoToken) =>
            pc'[p] = "exchanging"
    ]_vars

C10_Witness ==
  \E p \in Callers :
    /\ pc[p] = "exchanging"
    /\ hist[p] = <<401>>
    /\ accessToken = NoToken
    /\ now < tokenExpiry

\* the state of the cached token
TokenState ==
  IF accessToken = NoToken THEN "Absent"
  ELSE IF now < tokenExpiry THEN "Valid" ELSE "Expired"

\* C11 as stated: the token state changes only by Absent -> Valid,
\* Valid -> Expired and Expired -> Absent.
C11_Original ==
  [][TokenState' # TokenState =>
       <<TokenState, TokenState'>> \in
         {<<"Absent", "Valid">>, <<"Valid", "Expired">>, <<"Expired", "Absent">>}
    ]_vars

\* C11 (amended): on a client used by one caller at a time the token state
\* changes only by a successful exchange (Absent -> Valid, Absent -> Expired
\* when expires_in is 60 s or less, Expired -> Valid directly), by time
\* reaching the stored expiry (Valid -> Expired) and by the classification of
\* a 401 (Valid -> Absent, Expired -> Absent); the token and the expiry are
\* written only together, by a successful exchange, so a stored token always
\* has an expiry.
C11_TokenStateMachine ==
  /\ [](accessToken # NoToken => tokenExpiry # NoExpiry)
  /\ [][/\ TokenState' = "Absent" /\ TokenState # "Absent" =>
             \E p \in Callers : Classifies(p) /\ response'[p].status = 401
        /\ TokenState = "Absent" /\ TokenState' # "Absent" =>
             \E p \in Callers : Exchanged(p)
        /\ TokenState = "Expired" /\ TokenState' = "Valid" =>
             \E p \in Callers : Exchanged(p)
        /\ TokenState = "Valid" /\ TokenState' = "Expired" =>
             now' > now /\ accessToken' = accessToken /\ tokenExpiry' = tokenExpiry
        /\ tokenExpiry' # tokenExpiry =>
             /\ \E p \in Callers : Exchanged(p)
             /\ accessToken' \in Tokens
             /\ tokenExpiry' = now + cachedExpiresIn' * 1000 - 60000
        /\ accessToken' # accessToken =>
             \/ \E p \in Callers : Exchanged(p)
             \/ accessToken' = NoToken /\ tokenExpiry' = tokenExpiry
       ]_vars

C11_Witness ==
  \E p \in Callers :
    /\ hist[p] = <<401>>
    /\ pc[p] = "requesting"
    /\ exchanges[p] = 2
    /\ TokenState = "Valid"

\* C13: a token exchange that is rejected or fails ends the acquisition with
\* the token-acquisition error (no kind, status or payload attached) and
\* leaves the cached token and its expiry as they were.
C13_ExchangeFailure ==
  [][\A p \in Callers :
       (pc[p] = "exchanging" /\ pc'[p] = "done" /\ outcome'[p].kind # "return") =>
         /\ outcome'[p].kind = "AuthError"
         /\ outcome'[p].type = "none"
         /\ accessToken' = accessToken
         /\ tokenExpiry' = tokenExpiry
         /\ attempts'[p] = attempts[p]
    ]_vars

C13_Witness ==
  \E p \in Callers :
    /\ pc[p] = "done"
    /\ outcome[p].kind = "AuthError"
    /\ accessToken \in Tokens
    /\ tokenExpiry # NoExpiry
    /\ now >= tokenExpiry

\* C14: the wait set before retry number k of a dispatch is 1 s, 2 s and 4 s
\* for k = 1, 2, 3 (retry counter 0, 1, 2), each the double of the one
\* before; no fourth wait is set, so the waits of a dispatch add up to at
\* most 7 s; the retried attempt starts no earlier than the end of the wait.
C14_BackoffSchedule ==
  /\ [](\A p \in Callers : pc[p] = "backoff" => retryCount[p] \in 0..2)
  /\ [][\A p \in Callers :
          /\ (Classifies(p) /\ pc'[p] = "backoff") =>
               /\ retryCount[p] = 0 => wakeAt'[p] - now = 1000
               /\ retryCount[p] = 1 => wakeAt'[p] - now = 2000
               /\ retryCount[p] = 2 => wakeAt'[p] - now = 4000
          /\ (pc[p] = "backoff" /\ pc'[p] # "backoff") => now' >= wakeAt[p]
       ]_vars

C14_Witness ==
  \E p \in Callers :
    /\ pc[p] = "backoff"
    /\ retryCount[p] = 2
    /\ hist[p] = <<500, 401, 500>>
    /\ wakeAt[p] = requestId[p][2] + 4000

\* C12: verifyWebhook always returns a boolean, never raises; it returns
\* true exactly when the verification call was answered successfully with
\* verification_status SUCCESS, and false for any other status and for any
\* error of the call (a remote error, exhausted retries, a failed token
\* exchange, the local rate-limit error).
C12_WebhookNeverRaises ==
  \A p \in Callers :
    pc[p] = "settled" =>
      /\ outcome[p].kind = "return"
      /\ outcome[p].data \in {"true", "false"}
      /\ outcome[p].data = "true" <=>
           /\ hist[p] # <<>>
           /\ Last(hist[p]) = OkStatus
           /\ response[p].data = "SUCCESS"

C12_Witness ==
  \E p \in Callers :
    /\ pc[p] = "settled"
    /\ hist[p] = <<500, 500, 500, 500>>
    /\ outcome[p].data = "false"

\* C15: a client constructed with retryAttempts = k retries a failing
\* request at most k times, and a client constructed with timeout = t sends
\* its requests with timeout t.
C15_ConfigHonoured ==
  \A p \in Callers :
    /\ retryCount[p] <= config.retryAttempts
    /\ pc[p] = "requesting" => requestTimeout(config) = config.timeout

-----------------------------------------------------------------------------
\* Construction and the synchronous helpers.  The variable call holds the
\* last helper call: its name, its arguments and what it returned or threw.

Undefined == "undefined"

DefaultMaxRequests == 1000

LiveURL == "https://api-m.paypal.com"

SandboxURL == "https://api-m.sandbox.paypal.com"

RequiredMessage == "PayPal Client ID and Client Secret are required"

\* The inputs of a construction: option values and environment variables.
\* A numeric option is either absent or a number.
ClientIdChoices == {Undefined, "", "id"}

EnvClientIdChoices == {Undefined, "envId"}

ClientSecretChoices == {Undefined, "", "secret"}

EnvClientSecretChoices == {Undefined, "envSecret"}

ModeChoices == {Undefined, "live", "sandbox", "production"}

EnvModeChoices == {Undefined, "live"}

MaxRequestsChoices ==
  {[given |-> FALSE, n |-> 0], [given |-> TRUE, n |-> 0],
   [given |-> TRUE, n |-> 5]}

OptionsChoices ==
  [clientId : ClientIdChoices, clientSecret : ClientSecretChoices,
   mode : ModeChoices, maxRequestsPerMinute : MaxRequestsChoices]

EnvChoices ==
  [PAYPAL_CLIENT_ID : EnvClientIdChoices,
   PAYPAL_CLIENT_SECRET : EnvClientSecretChoices,
   PAYPAL_MODE : EnvModeChoices]

Endpoints == {"/v2/checkout/orders", "/v1/billing/plans"}

\* JavaScript truthiness of a string-or-undefined value, and a || b on them.
truthy(x) == x # Undefined /\ x # ""

or(a, b) == IF truthy(a) THEN a ELSE b

\* options.maxRequestsPerMinute || 1000
orNumber(x, d) == IF x.given /\ x.n # 0 THEN x.n ELSE d

credentialsMissing_onlyId(clientId, clientSecret) == ~truthy(clientId)

credentialsMissing(clientId, clientSecret) ==
  ~truthy(clientId) \/ ~truthy(clientSecret)

baseURLOf_production(mode) ==
  IF mode \in {"live", "production"} THEN LiveURL ELSE SandboxURL

baseURLOf(mode) == IF mode = "live" THEN LiveURL ELSE SandboxURL

constructor(options, env) ==
  LET clientId == or(options.clientId, env.PAYPAL_CLIENT_ID)
      clientSecret == or(options.clientSecret, env.PAYPAL_CLIENT_SECRET)
      mode == or(or(options.mode, env.PAYPAL_MODE), "sandbox")
  IN  IF credentialsMissing(clientId, clientSecret)
      THEN [threw |-> TRUE, message |-> RequiredMessage]
      ELSE [threw |-> FALSE,
            clientId |-> clientId,
            clientSecret |-> clientSecret,
            mode |-> mode,
            baseURL |-> baseURLOf(mode),
            accessToken |-> NoToken,
            tokenExpiry |-> NoExpiry,
            requestCounter |-> 0,
            rateLimitCount |-> 0,
            maxRequestsPerMinute |->
              orNumber(options.maxRequestsPerMinute, DefaultMaxRequests)]

\* The address of the token exchange and of an API request: the client's
\* base URL followed by the path.
tokenUrl(client) == <<client.baseURL, "/v1/oauth2/token">>

requestUrl(client, endpoint) == <<client.baseURL, endpoint>>

pipelineVars == <<clientVars, callerVars, now, cachedExpiresIn, config, identity>>

Construct(options, env) ==
  /\ call' = [fn |-> "constructor", options |-> options, env |-> env,
              result |-> constructor(options, env)]
  /\ UNCHANGED pipelineVars

TokenRequest ==
  /\ call.fn = "constructor"
  /\ ~call.result.threw
  /\ call' = [fn |-> "tokenUrl", client |-> call.result,
              result |-> tokenUrl(call.result)]
  /\ UNCHANGED pipelineVars

ApiRequest(endpoint) ==
  /\ call.fn = "constructor"
  /\ ~call.result.threw
  /\ call' = [fn |-> "requestUrl", client |-> call.result,
              result |-> requestUrl(call.result, endpoint)]
  /\ UNCHANGED pipelineVars

\* Amounts in minor units, chosen to cross the one-, two-, three- and
\* five-digit cases and the zero-padded fractions.
AmountChoices == {0, 5, 10, 99, 100, 101, 205, 999, 1000, 2500, 12345}

CurrencyChoices == {Undefined, "USD", "EUR", "GBP", "JPY", "CAD"}

Digits == <<"0", "1", "2", "3", "4", "5", "6", "7", "8", "9">>

RECURSIVE digitsOf(_)
\* The decimal digits of a natural number, most significant first.
digitsOf(n) ==
  IF n < 10 THEN <<Digits[n + 1]>>
  ELSE digitsOf(n \div 10) \o <<Digits[(n % 10) + 1]>>

RECURSIVE zeros(_)
zeros(k) == IF k = 0 THEN <<>> ELSE <<"0">> \o zeros(k - 1)

toFixed_unpadded(num, den, f) ==
  LET scale == 10 ^ f
      lo == (num * scale) \div den
      n == IF 2 * (num * scale - lo * den) >= den THEN lo + 1 ELSE lo
  IN  digitsOf(n \div scale) \o <<".">> \o digitsOf(n % scale)

\* Number.prototype.toFixed(f) applied to num / den >= 0: n is the integer
\* for which n / 10^f is nearest to the number (the larger on a tie), m its
\* digits, left-padded with zeros to f + 1 digits, and the point goes before
\* the last f digits.
toFixed(num, den, f) ==
  LET scale == 10 ^ f
      lo == (num * scale) \div den
      n == IF 2 * (num * scale - lo * den) >= den THEN lo + 1 ELSE lo
      m == digitsOf(n)
      padded == IF Len(m) <= f THEN zeros(f + 1 - Len(m)) \o m ELSE m
      k == Len(padded)
  IN  SubSeq(padded, 1, k - f) \o <<".">> \o SubSeq(padded, k - f + 1, k)

\* formatCurrency(amount, currency = 'USD')
formatCurrency(amount, currency) ==
  [currency_code |-> IF currency = Undefined THEN "USD" ELSE currency,
   value |-> toFixed(amount, 100, 2)]

FormatCurrency(amount, currency) ==
  /\ call' = [fn |-> "formatCurrency", amount |-> amount,
              currency |-> currency,
              result |-> formatCurrency(amount, currency)]
  /\ UNCHANGED pipelineVars

\* The arguments validateAmount is given: a JavaScript value with its typeof
\* and, for a string, the number it would coerce to.
AmountInputs ==
  {[type |-> "number", val |-> n] :
     n \in {-100, -1, 0, 1, 50, 99, 100, 101, 1000}}
  \cup {[type |-> "string", val |-> 1000], [type |-> "undefined", val |-> 0],
        [type |-> "object", val |-> 0]}

DefaultMinimum == 100

minimums == [USD |-> 100, EUR |-> 100, GBP |-> 100, JPY |-> 100]

\* minimums[currency] || 100
minimumFor(currency) ==
  IF currency \in DOMAIN minimums /\ minimums[currency] # 0
  THEN minimums[currency]
  ELSE DefaultMinimum

validateAmount_noTypeCheck(amount, currency) ==
  IF amount.val <= 0 THEN FALSE
  ELSE amount.val >= minimumFor(IF currency = Undefined THEN "USD" ELSE currency)

\* validateAmount(amount, currency = 'USD')
validateAmount(amount, currency) ==
  IF amount.type # "number" \/ amount.val <= 0 THEN FALSE
  ELSE amount.val >= minimumFor(IF currency = Undefined THEN "USD" ELSE currency)

ValidateAmount(amount, currency) ==
  /\ call' = [fn |-> "validateAmount", amount |-> amount,
              currency |-> currency,
              result |-> validateAmount(amount, currency)]
  /\ UNCHANGED pipelineVars

\* Request bodies.  An object is the set of its leaves, each a pair of the
\* path of keys that leads to it and its value; an array index is a key.
\* The defaults below keep the top-level keys of the source and a few of the
\* leaves under each.
topKeys(object) == {e[1][1] : e \in object}

under(object, key) == {e \in object : e[1][1] = key}

merge_deep(default, data) ==
  data \cup {e \in default : \A d \in data : d[1] # e[1]}

\* { ...default, ...data }
merge(default, data) ==
  data \cup {e \in default : e[1][1] \notin topKeys(data)}

defaultOrder ==
  {<<<<"intent">>, "CAPTURE">>,
   <<<<"purchase_units", "0", "amount", "currency_code">>, "config.defaultCurrency">>,
   <<<<"purchase_units", "0", "amount", "value">>, "100.00">>,
   <<<<"payment_source", "paypal", "experience_context", "brand_name">>, "config.brandName">>,
   <<<<"payment_source", "paypal", "experience_context", "return_url">>, "urls.return_url">>}

defaultPlan ==
  {<<<<"product_id">>, "PROD-XXXXXXXXXXXXXXXXXXXX">>,
   <<<<"name">>, "Basic Plan">>,
   <<<<"description">>, "Basic subscription plan">>,
   <<<<"status">>, "ACTIVE">>,
   <<<<"billing_cycles", "0", "tenure_type">>, "REGULAR">>,
   <<<<"billing_cycles", "0", "pricing_scheme", "fixed_price", "value">>, "10.00">>,
   <<<<"payment_preferences", "setup_fee", "value">>, "0.00">>,
   <<<<"payment_preferences", "setup_fee_failure_action">>, "CONTINUE">>,
   <<<<"taxes", "percentage">>, "0.00">>}

defaultSubscription ==
  {<<<<"plan_id">>, "P-XXXXXXXXXXXXXXXXXXXXXXXXXX">>,
   <<<<"start_time">>, "tomorrow">>,
   <<<<"quantity">>, "1">>,
   <<<<"shipping_amount", "currency_code">>, "USD">>,
   <<<<"shipping_amount", "value">>, "0.00">>,
   <<<<"subscriber", "payment_method", "payer_selected">>, "PAYPAL">>,
   <<<<"subscriber", "return_url">>, "https://example.com/return">>}

defaultProduct ==
  {<<<<"name">>, "Basic Product">>,
   <<<<"description">>, "Basic product for subscription">>,
   <<<<"type">>, "SERVICE">>,
   <<<<"category">>, "SOFTWARE">>}

defaultInvoice ==
  {<<<<"detail", "invoice_number">>, "INV-now">>,
   <<<<"detail", "currency_code">>, "USD">>,
   <<<<"detail", "payment_term", "term_type">>, "NET_10">>,
   <<<<"invoicer", "name", "given_name">>, "Your">>,
   <<<<"invoicer", "email_address">>, "business@example.com">>,
   <<<<"primary_recipients", "0", "billing_info", "email_address">>, "customer@example.com">>,
   <<<<"items", "0", "name">>, "Item Name">>,
   <<<<"configuration", "allow_tip">>, "false">>}

defaultSendData ==
  {<<<<"send_to_recipient">>, "true">>,
   <<<<"send_to_invoicer">>, "false">>}

defaultCancelData ==
  {<<<<"subject">>, "Invoice Cancelled">>,
   <<<<"note">>, "The invoice has been cancelled.">>,
   <<<<"send_to_recipient">>, "true">>,
   <<<<"send_to_invoicer">>, "false">>}

defaultProfile ==
  {<<<<"name">>, "YourStore_Profile_now">>,
   <<<<"presentation", "brand_name">>, "Your Store">>,
   <<<<"presentation", "locale_code">>, "US">>,
   <<<<"input_fields", "allow_note">>, "true">>,
   <<<<"flow_config", "landing_page_type">>, "billing">>}

defaultWebhook ==
  {<<<<"url">>, "https://example.com/webhook">>,
   <<<<"event_types", "0", "name">>, "PAYMENT.CAPTURE.COMPLETED">>,
   <<<<"event_types", "1", "name">>, "PAYMENT.CAPTURE.DENIED">>}

PayloadOps ==
  {"createOrder", "createSubscriptionPlan", "createSubscription",
   "createProduct", "createInvoice", "sendInvoice", "cancelInvoice",
   "createPaymentExperience", "createWebhook"}

defaultOf(operation) ==
  CASE operation = "createOrder" -> defaultOrder
    [] operation = "createSubscriptionPlan" -> defaultPlan
    [] operation = "createSubscription" -> defaultSubscription
    [] operation = "createProduct" -> defaultProduct
    [] operation = "createInvoice" -> defaultInvoice
    [] operation = "sendInvoice" -> defaultSendData
    [] operation = "cancelInvoice" -> defaultCancelData
    [] operation = "createPaymentExperience" -> defaultProfile
    [] operation = "createWebhook" -> defaultWebhook

\* What a caller may pass: its own value for one leaf of the default, a new
\* leaf beside the default's leaves under the same top-level key, and a
\* top-level key the default does not have.
Sibling(path) == SubSeq(path, 1, Len(path) - 1) \o <<"caller_key">>

CallerLeaves(operation) ==
  LET default == defaultOf(operation)
      deepest == CHOOSE e \in default :
                   \A o \in default : Len(o[1]) <= Len(e[1])
      shallow == CHOOSE e \in default :
                   \A o \in default : Len(o[1]) >= Len(e[1])
  IN  {<<deepest[1], "caller">>, <<Sibling(deepest[1]), "caller">>,
       <<shallow[1], "caller">>, <<<<"custom_id">>, "caller">>}

\* The body handed to makeRequest by a payload-building operation.
payloadOf(operation, data) == merge(defaultOf(operation), data)

BuildPayload(operation, data) ==
  /\ call' = [fn |-> operation, data |-> data,
              result |-> payloadOf(operation, data)]
  /\ UNCHANGED pipelineVars

\* ------------------------------------------------------- createSimplePayment
\* The branding part of this.config: brand name, base URL and the optional
\* return and cancel URLs the constructor resolved.
BrandConfigChoices ==
  [brandName : {"My Awesome Store"},
   baseUrl : {"https://mystore.com"},
   returnUrl : {Undefined, "https://mystore.com/thanks"},
   cancelUrl : {Undefined, "https://mystore.com/back"}]

\* The returnUrl and cancelUrl arguments of createSimplePayment.
UrlArguments == {Undefined, "https://shop.example/after"}

\* `${baseUrl}/${type}/${leaf}` for the base URLs of BrandConfigChoices
urlUnder(baseUrl, type, leaf) ==
  CASE baseUrl = "https://mystore.com" /\ type = "payment" /\ leaf = "success"
         -> "https://mystore.com/payment/success"
    [] baseUrl = "https://mystore.com" /\ type = "payment" /\ leaf = "cancel"
         -> "https://mystore.com/payment/cancel"

\* the value of a top-level key of an object, undefined when it has none
topValue(object, key) ==
  IF \E e \in object : e[1] = <<key>>
  THEN (CHOOSE e \in object : e[1] = <<key>>)[2]
  ELSE Undefined

\* getReturnUrls(type, overrides)
getReturnUrls(cfg, type, overrides) ==
  LET baseReturnUrl == or(cfg.returnUrl, urlUnder(cfg.baseUrl, type, "success"))
      baseCancelUrl == or(cfg.cancelUrl, urlUnder(cfg.baseUrl, type, "cancel"))
  IN  [return_url |-> or(or(topValue(overrides, "returnUrl"),
                            topValue(overrides, "return_url")), baseReturnUrl),
       cancel_url |-> or(or(topValue(overrides, "cancelUrl"),
                            topValue(overrides, "cancel_url")), baseCancelUrl)]

ExperienceContext == <<"payment_source", "paypal", "experience_context">>

\* defaultOrder of createOrder with the values of this.config filled in
defaultOrderOf(cfg, urls) ==
  {<<<<"intent">>, "CAPTURE">>,
   <<<<"purchase_units", "0", "amount", "currency_code">>, "USD">>,
   <<ExperienceContext \o <<"brand_name">>, cfg.brandName>>,
   <<ExperienceContext \o <<"user_action">>, "PAY_NOW">>,
   <<ExperienceContext \o <<"return_url">>, urls.return_url>>,
   <<ExperienceContext \o <<"cancel_url">>, urls.cancel_url>>}

\* createOrder(orderData): the body handed to makeRequest
createOrder(cfg, orderData) ==
  merge(defaultOrderOf(cfg, getReturnUrls(cfg, "payment", orderData)), orderData)

\* createSimplePayment(amount, currency, description, returnUrl, cancelUrl):
\* the body handed to makeRequest
createSimplePayment(cfg, currency, returnUrl, cancelUrl) ==
  LET orderData ==
        {<<<<"intent">>, "CAPTURE">>,
         <<<<"purchase_units", "0", "amount", "currency_code">>,
           formatCurrency(0, currency).currency_code>>,
         <<<<"purchase_units", "0", "description">>, "Payment">>,
         <<ExperienceContext \o <<"brand_name">>, "Your Store">>,
         <<ExperienceContext \o <<"user_action">>, "PAY_NOW">>,
         <<ExperienceContext \o <<"return_url">>,
           or(returnUrl, "https://example.com/return")>>,
         <<ExperienceContext \o <<"cancel_url">>,
           or(cancelUrl, "https://example.com/cancel")>>}
  IN  createOrder(cfg, orderData)

SimplePayment(cfg, currency, returnUrl, cancelUrl) ==
  /\ call' = [fn |-> "createSimplePayment", config |-> cfg,
              returnUrl |-> returnUrl, cancelUrl |-> cancelUrl,
              result |-> createSimplePayment(cfg, currency, returnUrl, cancelUrl)]
  /\ UNCHANGED pipelineVars

NextHelpers ==
  \/ \E options \in OptionsChoices, env \in EnvChoices : Construct(options, env)
  \/ TokenRequest
  \/ \E endpoint \in Endpoints : ApiRequest(endpoint)
  \/ \E amount \in AmountChoices, currency \in CurrencyChoices :
       FormatCurrency(amount, currency)
  \/ \E amount \in AmountInputs, currency \in CurrencyChoices :
       ValidateAmount(amount, currency)
  \/ \E operation \in PayloadOps :
       \E data \in SUBSET CallerLeaves(operation) :
         BuildPayload(operation, data)
  \/ \E cfg \in BrandConfigChoices, currency \in CurrencyChoices :
       \E returnUrl \in UrlArguments, cancelUrl \in UrlArguments :
         SimplePayment(cfg, currency, returnUrl, cancelUrl)

InitHelpers == Init /\ maxRequestsPerMinute = MaxCeiling

SpecHelpers == InitHelpers /\ [][NextHelpers]_vars

-----------------------------------------------------------------------------
\* Properties of construction and of the helpers.

\* The value a || b leaves when a is the option and b the environment
\* variable, computed from the claim's words: the option when it is present
\* and not empty, else the environment variable.
Resolved(option, variable) ==
  IF option \notin {Undefined, ""} THEN option ELSE variable

C17_EndpointRoot ==
  /\ (call.fn = "constructor" /\ ~call.result.threw) =>
       LET given == Resolved(call.options.mode, call.env.PAYPAL_MODE)
           mode == IF given = Undefined THEN "sandbox" ELSE given
       IN  /\ call.result.mode = mode
           /\ mode = "live" => call.result.baseURL = "https://api-m.paypal.com"
           /\ mode # "live" =>
                call.result.baseURL = "https://api-m.sandbox.paypal.com"
  /\ call.fn \in {"tokenUrl", "requestUrl"} =>
       /\ call.result[1] = call.client.baseURL
       /\ call.client.baseURL =
            IF call.client.mode = "live" THEN "https://api-m.paypal.com"
            ELSE "https://api-m.sandbox.paypal.com"

C17_Witness ==
  /\ call.fn = "requestUrl"
  /\ call.client.mode = "production"
  /\ call.result = <<SandboxURL, "/v2/checkout/orders">>

Index(c) == CHOOSE i \in 1..Len(Digits) : Digits[i] = c

RECURSIVE numberOf(_)
\* The natural number a sequence of digit characters denotes.
numberOf(s) ==
  IF s = <<>> THEN 0
  ELSE 10 * numberOf(SubSeq(s, 1, Len(s) - 1)) + (Index(s[Len(s)]) - 1)

IsDigits(s) == \A i \in 1..Len(s) : \E j \in 1..Len(Digits) : Digits[j] = s[i]

\* C18: for a non-negative integer amount a in minor units and a currency
\* code c, formatCurrency(a, c) returns currency_code = c and value = the
\* decimal string of a / 100 with exactly two digits after the point: the
\* integer part is a div 100 and the fraction a mod 100 zero-padded to two
\* digits; the currency is USD when omitted.
C18_FormatCurrency ==
  call.fn = "formatCurrency" =>
    LET v == call.result.value
        whole == SubSeq(v, 1, Len(v) - 3)
        fraction == SubSeq(v, Len(v) - 1, Len(v))
    IN  /\ call.result.currency_code =
             (IF call.currency = Undefined THEN "USD" ELSE call.currency)
        /\ Len(v) >= 4
        /\ v[Len(v) - 2] = "."
        /\ IsDigits(whole) /\ IsDigits(fraction)
        /\ Len(whole) > 1 => whole[1] # "0"
        /\ numberOf(whole) = call.amount \div 100
        /\ numberOf(fraction) = call.amount % 100

C18_Witness ==
  /\ call.fn = "formatCurrency"
  /\ call.amount = 205
  /\ call.currency = Undefined
  /\ call.result = [currency_code |-> "USD", value |-> <<"2", ".", "0", "5">>]

\* C19: validateAmount(amount, currency) returns true exactly when amount is
\* a number greater than or equal to the currency's minimum, which is 100
\* minor units for USD, EUR, GBP, JPY and for an unlisted currency; it
\* returns false below the minimum, for zero, for a negative amount and for
\* a non-numeric input.
C19_ValidateAmount ==
  call.fn = "validateAmount" =>
    /\ call.result <=> (call.amount.type = "number" /\ call.amount.val >= 100)
    /\ call.amount.type # "number" => ~call.result
    /\ (call.amount.type = "number" /\ call.amount.val <= 0) => ~call.result

C19_Witness ==
  /\ call.fn = "validateAmount"
  /\ call.amount = [type |-> "string", val |-> 1000]
  /\ call.currency = "CAD"
  /\ call.result = FALSE

\* C20: the body a payload-building operation sends has, for every
\* top-level key present in the caller's data, exactly the caller's value
\* (the default's leaves under that key are dropped, not merged), and for
\* every other top-level key the default value.
C20_ShallowMerge ==
  call.fn \in PayloadOps =>
    /\ topKeys(call.result) = topKeys(call.data) \cup topKeys(defaultOf(call.fn))
    /\ \A key \in topKeys(call.result) :
         under(call.result, key) =
           IF key \in topKeys(call.data) THEN under(call.data, key)
           ELSE under(defaultOf(call.fn), key)

C20_Witness ==
  /\ call.fn = "createOrder"
  /\ \E e \in call.data :
       /\ call.data = {e}
       /\ Len(e[1]) = 4
       /\ e[1][4] = "caller_key"
       /\ under(defaultOrder, e[1][1]) # {}
       /\ under(call.result, e[1][1]) = {e}
  /\ under(call.result, "intent") = {<<<<"intent">>, "CAPTURE">>}

\* the leaf of an object at a path
leafAt(object, path) == (CHOOSE e \in object : e[1] = path)[2]

\* C21: on a client configured with a brand name and base, return and
\* cancel URLs, createSimplePayment called without explicit URLs sends an
\* order whose experience context carries the configured brand name and the
\* configured return and cancel URLs, never 'Your Store' or an example.com
\* address.
C21_ConfiguredBranding ==
  (/\ call.fn = "createSimplePayment"
   /\ call.returnUrl = Undefined
   /\ call.cancelUrl = Undefined) =>
    LET urls == getReturnUrls(call.config, "payment", {})
    IN  /\ leafAt(call.result, ExperienceContext \o <<"brand_name">>) =
             call.config.brandName
        /\ leafAt(call.result, ExperienceContext \o <<"return_url">>) =
             urls.return_url
        /\ leafAt(call.result, ExperienceContext \o <<"cancel_url">>) =
             urls.cancel_url

\* the fields of the client that hold its configuration
Configuration == <<identity, maxRequestsPerMinute, config>>

\* C22: no operation of the client (token acquisition, throttle check,
\* error classification, dispatch with its retries) changes the client id,
\* the client secret, the mode, the base URL, the per-minute ceiling or the
\* config record; an operation changes only the cached token, its expiry,
\* the rate counter, the rate window start and the request counter.
C22_ConfigurationFrozen ==
  [][Configuration' = Configuration]_vars

C22_Witness ==
  \E p \in Callers :
    /\ hist[p] = <<500, 401>>
    /\ pc[p] = "backoff"
    /\ accessToken = NoToken
    /\ tokenExpiry # NoExpiry
    /\ requestCounter = 2
    /\ rateLimitCount = 2
    /\ Configuration = <<ClientIdentity, 4, DefaultConfig>>

\* every status of the history is a transient failure
AllTransient(h) == \A i \in 1..Len(h) : h[i] \in {401, 500}

\* C24: a dispatch answered a 500 or a 401 on every attempt makes exactly 4
\* API attempts (it raises no classified error before the fourth answer) and
\* then raises a typed error whose kind and status are those of the last
\* failure, with the payload of that answer and a correlation id attached.
C24_ExhaustedRetries ==
  \A p \in Callers :
    (hist[p] # <<>> /\ AllTransient(hist[p])) =>
      /\ Len(hist[p]) <= 4
      /\ Len(hist[p]) < 4 => outcome[p].kind # "ApiError"
      /\ Len(hist[p]) = 4 =>
           /\ pc[p] = "done"
           /\ attempts[p] = 4
           /\ outcome[p].kind = "ApiError"
           /\ outcome[p].type = (IF Last(hist[p]) = 500 THEN "INTERNAL_SERVER_ERROR"
                                 ELSE "AUTHENTICATION_FAILURE")
           /\ outcome[p].status = Last(hist[p])
           /\ outcome[p].details = response[p].data
           /\ outcome[p].details \in Payloads
           /\ outcome[p].requestId # NoRequestId

C24_Witness ==
  \E p \in Callers :
    /\ hist[p] = <<500, 401, 500, 401>>
    /\ outcome[p].type = "AUTHENTICATION_FAILURE"
    /\ outcome[p].status = 401
    /\ attempts[p] = 4

\* C25: every attempt of a dispatch, the first request and each retry, is
\* sent with the same PayPal-Request-Id.
C25_OneCorrelationId ==
  [][\A p \in Callers :
       (attempts'[p] = attempts[p] + 1 /\ attempts[p] >= 1) =>
         requestId'[p] = requestId[p]
    ]_vars

\* C28: every retry first runs the throttle check: when the counter (set
\* back to 0 if the window is older than 60 s) is below the ceiling the
\* retry is admitted and raises the counter by one; when the counter is at
\* the ceiling the dispatch ends with the untyped local rate-limit error,
\* not with the classified error that caused the retry, and sends nothing.
C28_RetriesThrottled ==
  [][\A p \in Callers :
       (pc[p] = "backoff" /\ pc'[p] # "backoff") =>
         LET before == IF now' - rateLimitWindow > 60000 THEN 0
                       ELSE rateLimitCount
         IN  /\ retryCount'[p] = retryCount[p] + 1
             /\ before < maxRequestsPerMinute =>
                  /\ pc'[p] \in {"exchanging", "requesting"}
                  /\ rateLimitCount' = before + 1
             /\ before >= maxRequestsPerMinute =>
                  /\ pc'[p] = "done"
                  /\ outcome'[p].kind = "RateLimitError"
                  /\ outcome'[p].type = "none"
                  /\ outcome'[p].status = NoStatus
                  /\ outcome'[p].requestId = NoRequestId
                  /\ rateLimitCount' = rateLimitCount
                  /\ attempts'[p] = attempts[p]
                  /\ exchanges'[p] = exchanges[p]
    ]_vars

C28_Witness ==
  \E p \in Callers :
    /\ pc[p] = "done"
    /\ outcome[p].kind = "RateLimitError"
    /\ retryCount[p] = 2
    /\ hist[p] = <<500, 500>>
    /\ parsed[p].type = "INTERNAL_SERVER_ERROR"
    /\ rateLimitCount = 2

\* C29: when the token exchange fails during an attempt of a dispatch the
\* dispatch raises the token-acquisition error at once: no API request is
\* sent for that attempt, the failure is neither classified nor retried
\* whatever the retry counter is, the error carries no kind, status or
\* correlation id, and the rate counter keeps the increment of that attempt.
C29_ExchangeFailureInDispatch ==
  /\ [](\A p \in Callers :
          (pc[p] = "done" /\ op[p] = "makeRequest"
             /\ outcome[p].kind = "AuthError") => rateLimitCount >= 1)
  /\ [][\A p \in Callers :
          (/\ pc[p] = "exchanging"
           /\ op[p] = "makeRequest"
           /\ pc'[p] \notin {"exchanging", "requesting"}) =>
            /\ pc'[p] = "done"
            /\ outcome'[p].kind = "AuthError"
            /\ outcome'[p].type = "none"
            /\ outcome'[p].status = NoStatus
            /\ outcome'[p].requestId = NoRequestId
            /\ attempts'[p] = attempts[p]
            /\ requestCounter' = requestCounter
            /\ parsed'[p] = parsed[p]
            /\ hist'[p] = hist[p]
            /\ retryCount'[p] = retryCount[p]
            /\ rateLimitCount' = rateLimitCount
       ]_vars

C29_Witness ==
  \E p \in Callers :
    /\ pc[p] = "done"
    /\ op[p] = "makeRequest"
    /\ outcome[p].kind = "AuthError"
    /\ retryCount[p] = 2
    /\ hist[p] = <<401, 401>>
    /\ attempts[p] = 2
    /\ exchanges[p] = 3
    /\ rateLimitCount = 3

\* caller p is inside a dispatch that has not ended
Pending(p) == pc[p] \in {"exchanging", "requesting", "backoff"}

C26_FixedTimeout ==
  \A p \in Callers :
    /\ pc[p] = "requesting" ~> pc[p] # "requesting"
    /\ pc[p] = "exchanging" ~> pc[p] # "exchanging"

\* C27: under every interleaving of the dispatches of two callers the rate
\* counter stays between 0 and the ceiling; the counter changes only by a
\* throttle check that admits its call, to 1 when that check restarts the
\* window and by one otherwise, so no more checks are admitted between two
\* window resets than the ceiling; a rejected check leaves the counter and
\* the window as they were.
C27_NoThrottleOvershoot ==
  /\ [](rateLimitCount \in 0..maxRequestsPerMinute)
  /\ [][/\ rateLimitCount' # rateLimitCount =>
             \E p \in ConcurrentCallers : ThrottleChecked(p) /\ Admitted(p)
        /\ \A p \in ConcurrentCallers :
             ThrottleChecked(p) =>
               /\ Admitted(p) =>
                    /\ rateLimitWindow' \in {rateLimitWindow, now'}
                    /\ rateLimitCount' =
                         (IF rateLimitWindow' # rateLimitWindow THEN 1
                          ELSE rateLimitCount + 1)
               /\ ~Admitted(p) =>
                    /\ rateLimitCount' = rateLimitCount
                    /\ rateLimitWindow' = rateLimitWindow
                    /\ rateLimitCount = maxRequestsPerMinute
       ]_vars

C27_Witness ==
  /\ pc["c1"] = "requesting"
  /\ retryCount["c1"] = 1
  /\ pc["c2"] = "done"
  /\ outcome["c2"].kind = "RateLimitError"
  /\ hist["c2"] = <<401>>
  /\ rateLimitCount = maxRequestsPerMinute
  /\ rateLimitCount = 3

\* C30 as stated: a 401 for a request sent with a token that is no longer
\* the cached one leaves the cached token alone.
C30_Original ==
  [][\A p \in ConcurrentCallers :
       (Classifies(p) /\ response'[p].status = 401 /\ accessToken # token[p]) =>
         accessToken' = accessToken
    ]_vars

\* C30 (amended): under every interleaving of two callers the classification
\* of a 401 clears the cached token whichever token the failing request was
\* sent with, so a 401 for an older token does discard a newer token stored
\* by the other caller in the meantime (the next acquisition pays one more
\* exchange); it leaves the expiry alone.  A token is stored only by an
\* answered exchange, together with the expiry of that same exchange.
C30_Stale401ClearsToken ==
  /\ [](accessToken # NoToken => tokenExpiry # NoExpiry)
  /\ [][/\ \A p \in ConcurrentCallers :
             (Classifies(p) /\ response'[p].status = 401) =>
               accessToken' = NoToken /\ tokenExpiry' = tokenExpiry
        /\ (accessToken' \notin {accessToken, NoToken}
              \/ tokenExpiry' # tokenExpiry) =>
             \E p \in ConcurrentCallers :
               /\ Exchanged(p)
               /\ accessToken' = token'[p]
               /\ accessToken' \in Tokens
               /\ tokenExpiry' = now + cachedExpiresIn' * 1000 - 60000
       ]_vars

\* c1's request went out with tokA; c2 has since stored tokB and sent its
\* retry with it; the 401 for c1's request has emptied the cache.
C30_Witness ==
  /\ token["c1"] = "tokA"
  /\ hist["c1"] = <<401>>
  /\ pc["c1"] = "backoff"
  /\ token["c2"] = "tokB"
  /\ hist["c2"] = <<401>>
  /\ pc["c2"] = "requesting"
  /\ exchanges["c2"] = 1
  /\ accessToken = NoToken

====
